---- MODULE Spec2Model ----
(***************************************************************************)
(* rgfs: format the staged content of files with an external formatter.   *)
(* Text is modelled as a sequence of one-character strings, so that the    *)
(* regular expression of parse_diff, the glob patterns of the file         *)
(* filters and the path join are computed character by character.          *)
(***************************************************************************)
EXTENDS Integers, Sequences, FiniteSets, TLC

VARIABLES
    \* one call of matches_some_path
    m_patterns, m_path, m_done, m_result,
    \* one call of parse_diff
    p_fields, p_line, p_done, p_result,
    \* a run of the program
    pc, files, formatter, write, update_working_tree, signed_patterns,
    queried, staged_files, line_no, index, worktree, decisions, exit_code

mvars == <<m_patterns, m_path, m_done, m_result>>

pvars == <<p_fields, p_line, p_done, p_result>>

dvars == <<pc, files, formatter, write, update_working_tree, signed_patterns,
           queried, staged_files, line_no, index, worktree, decisions, exit_code>>

vars == <<mvars, pvars, dvars>>

(***************************************************************************)
(* Text helpers                                                            *)
(***************************************************************************)
Range(s) == {s[i] : i \in 1..Len(s)}

Drop(s, n) == SubSeq(s, n + 1, Len(s))

DigitChars == {"0", "1", "2", "3", "4", "5", "6", "7", "8", "9"}

HexChars == DigitChars \cup {"a", "b", "c", "d", "e", "f"}

StatusChars == {"A", "C", "D", "M", "R", "T", "U", "X", "B"}

SP == " "

TAB == "\t"

\* std::path::is_separator on the platform the tool runs on
is_separator(c) == c = "/"

\* A byte that is not valid UTF-8 inside an OS path (Path::to_str gives None)
BadByte == "<non-utf8>"

Max(S) == CHOOSE x \in S : \A y \in S : y <= x

Min(S) == CHOOSE x \in S : \A y \in S : x <= y

(***************************************************************************)
(* glob::Pattern, as used by SignedPattern and matches_some_path           *)
(***************************************************************************)
\* Result<Vec<PatternToken>, PatternError>
GlobOk(tokens) == [ok |-> TRUE, tokens |-> tokens]

GlobErr == [ok |-> FALSE, tokens |-> <<>>]

Tok(t, c, cs) == [t |-> t, c |-> c, cs |-> cs]

\* length of the run of '*' that starts at position i of chars
RECURSIVE StarRun(_, _)
StarRun(chars, i) ==
    IF i <= Len(chars) /\ chars[i] = "*" THEN 1 + StarRun(chars, i + 1) ELSE 0

\* position (1-based, >= from) of the first ']' at or after from; 0 if none
ClosePos(chars, from) ==
    LET S == {k \in from..Len(chars) : chars[k] = "]"}
    IN  IF S = {} THEN 0 ELSE Min(S)

\* One step of the loop of glob::Pattern::new at position i (1-based) with
\* the tokens so far: the next position and the tokens, or the error.
GlobStepOk(next, tokens) == [ok |-> TRUE, next |-> next, tokens |-> tokens]

GlobStepErr == [ok |-> FALSE, next |-> 0, tokens |-> <<>>]

GlobStep(chars, i, tokens) ==
    IF chars[i] = "?" THEN
        GlobStepOk(i + 1, Append(tokens, Tok("AnyChar", "", {})))
    ELSE IF chars[i] = "*" THEN
        LET count == StarRun(chars, i)
            j == i + count       \* first position after the stars
        IN  IF count > 2 THEN GlobStepErr
            ELSE IF count = 2 THEN
                \* ** has to be a whole path component
                IF i = 1 \/ is_separator(chars[i - 1]) THEN
                    LET toks == IF Len(tokens) > 1
                                   /\ tokens[Len(tokens)].t = "AnyRecursiveSequence"
                                THEN tokens
                                ELSE Append(tokens, Tok("AnyRecursiveSequence", "", {}))
                    IN  IF j <= Len(chars) /\ is_separator(chars[j])
                        THEN GlobStepOk(j + 1, toks)
                        ELSE IF j > Len(chars) THEN GlobStepOk(j, toks)
                        ELSE GlobStepErr
                ELSE GlobStepErr
            ELSE GlobStepOk(j, Append(tokens, Tok("AnySequence", "", {})))
    ELSE IF chars[i] = "[" THEN
        IF i + 3 <= Len(chars) /\ chars[i + 1] = "!" THEN
            LET k == ClosePos(chars, i + 3)
            IN  IF k = 0 THEN GlobStepErr
                ELSE GlobStepOk(k + 1,
                        Append(tokens, Tok("AnyExcept", "", Range(SubSeq(chars, i + 2, k - 1)))))
        ELSE IF i + 2 <= Len(chars) /\ chars[i + 1] # "!" THEN
            LET k == ClosePos(chars, i + 2)
            IN  IF k = 0 THEN GlobStepErr
                ELSE GlobStepOk(k + 1,
                        Append(tokens, Tok("AnyWithin", "", Range(SubSeq(chars, i + 1, k - 1)))))
        ELSE GlobStepErr
    ELSE GlobStepOk(i + 1, Append(tokens, Tok("Char", chars[i], {})))

\* glob::Pattern::new: the token list of a pattern, or PatternError
RECURSIVE GlobCompile(_, _, _)
GlobCompile(chars, i, tokens) ==
    IF i > Len(chars) THEN GlobOk(tokens)
    ELSE LET st == GlobStep(chars, i, tokens)
         IN  IF st.ok THEN GlobCompile(chars, st.next, st.tokens) ELSE GlobErr

GlobNew(chars) == GlobCompile(chars, 1, <<>>)

\* one token that consumes exactly one character
TokenAccepts(tok, c) ==
    CASE tok.t = "AnyChar"   -> TRUE
      [] tok.t = "AnyWithin" -> c \in tok.cs
      [] tok.t = "AnyExcept" -> c \notin tok.cs
      [] tok.t = "Char"      -> c = tok.c
      [] OTHER               -> FALSE

\* the positions of the file at which the match can go on after token ti has
\* taken its characters from position fi: a sequence token takes any number of
\* characters (a recursive one only up to a separator or to the end), every
\* other token exactly one character that it accepts
AfterToken(tokens, file, ti, fi) ==
    IF tokens[ti].t \in {"AnySequence", "AnyRecursiveSequence"}
    THEN {k \in fi..(Len(file) + 1) :
            \/ k = fi
            \/ tokens[ti].t = "AnySequence"
            \/ is_separator(file[k - 1])
            \/ k = Len(file) + 1}
    ELSE IF fi <= Len(file) /\ TokenAccepts(tokens[ti], file[fi]) THEN {fi + 1} ELSE {}

\* glob::Pattern::matches_from with MatchOptions::new(): do tokens ti.. match file fi.. ?
RECURSIVE GlobMatchesFrom(_, _, _, _)
GlobMatchesFrom(tokens, file, ti, fi) ==
    IF ti > Len(tokens) THEN fi > Len(file)
    ELSE \E k \in AfterToken(tokens, file, ti, fi) : GlobMatchesFrom(tokens, file, ti + 1, k)

GlobMatches(tokens, str) == GlobMatchesFrom(tokens, str, 1, 1)

(***************************************************************************)
(* SignedPattern                                                           *)
(***************************************************************************)
\* SignedPattern::from_str: a leading '!' makes the pattern an exclude
\* pattern and is not part of the glob; ok is FALSE (Err(PatternError)) when
\* the glob does not compile.
SignedPattern_from_str(pattern) ==
    LET negated == Len(pattern) > 0 /\ pattern[1] = "!"
        glob == GlobNew(IF negated THEN Drop(pattern, 1) ELSE pattern)
    IN  [ok |-> glob.ok, positive |-> ~negated, pattern |-> glob.tokens]

\* Path::to_str gives Some exactly for a path that is valid UTF-8
PathIsUtf8(path) == BadByte \notin Range(path)

\* first-match-wins instead of last-match-wins
MatchLoop_FirstWins(patterns, path_str, i, is_match) ==
    LET S == {k \in i..Len(patterns) : GlobMatches(patterns[k].pattern, path_str)}
    IN  IF S = {} THEN is_match ELSE patterns[Min(S)].positive

\* the loop of matches_some_path over patterns i.. with the running is_match
RECURSIVE MatchLoop(_, _, _, _)
MatchLoop(patterns, path_str, i, is_match) ==
    IF i > Len(patterns) THEN is_match
    ELSE MatchLoop(patterns, path_str, i + 1,
                   IF GlobMatches(patterns[i].pattern, path_str)
                   THEN patterns[i].positive
                   ELSE is_match)

matches_some_path(patterns, path) ==
    IF ~PathIsUtf8(path) THEN FALSE
    ELSE MatchLoop(patterns, path, 1, FALSE)

\* PathBuf::join / normalize_path
\* git_root is an Option: [some |-> BOOLEAN, root |-> text]
PathJoin(root, relative_path) ==
    IF Len(relative_path) > 0 /\ is_separator(relative_path[1]) THEN relative_path
    ELSE IF Len(root) = 0 \/ is_separator(root[Len(root)])
         THEN root \o relative_path
    ELSE root \o <<"/">> \o relative_path

\* the root is dropped: the relative path is matched
normalize_path_Relative(relative_path, git_root) == relative_path

normalize_path(relative_path, git_root) ==
    IF git_root.some THEN PathJoin(git_root.root, relative_path)
    ELSE relative_path

(***************************************************************************)
(* parse_diff                                                              *)
(***************************************************************************)
ModeLen == 6

HashLen == 40

MaxScoreDigits == 3

I32Max == 2147483647

AllIn(s, from, to, S) == \A k \in from..to : s[k] \in S

\* value of a run of decimal digits
DigitVal(c) ==
    CASE c = "0" -> 0 [] c = "1" -> 1 [] c = "2" -> 2 [] c = "3" -> 3 [] c = "4" -> 4
      [] c = "5" -> 5 [] c = "6" -> 6 [] c = "7" -> 7 [] c = "8" -> 8 [] c = "9" -> 9

RECURSIVE DecValue(_, _)
DecValue(s, acc) ==
    IF Len(s) = 0 THEN acc ELSE DecValue(Drop(s, 1), 10 * acc + DigitVal(s[1]))

\* the digits of str::parse::<i32> after the optional sign
ParseI32Digits(negative, digits) ==
    IF Len(digits) > 0 /\ Len(digits) <= 10 /\ Range(digits) \subseteq DigitChars
       /\ (IF negative THEN DecValue(digits, 0) <= I32Max + 1
                       ELSE DecValue(digits, 0) <= I32Max)
    THEN [ok |-> TRUE, val |-> IF negative THEN 0 - DecValue(digits, 0)
                                           ELSE DecValue(digits, 0)]
    ELSE [ok |-> FALSE, val |-> 0]

\* str::parse::<i32>: an optional sign, then one or more digits, in range
ParseI32(s) ==
    IF Len(s) > 0 /\ s[1] \in {"+", "-"}
    THEN ParseI32Digits(s[1] = "-", Drop(s, 1))
    ELSE ParseI32Digits(FALSE, s)

\* Offsets, from the start s of a match, of the fixed-width part of the regex
\*   (\d{6}) (\d{6}) ([0-9a-f]{40}) ([0-9a-f]{40}) ([ACDMRTUXB])
OffMode2 == ModeLen + 1

OffHash1 == 2 * ModeLen + 2

OffHash2 == 2 * ModeLen + HashLen + 3

OffStatus == 2 * ModeLen + 2 * HashLen + 4

\* number of digits the greedy \d{0,3} takes at position p, given that a
\* space has to follow; -1 when no count in 0..3 is followed by a space
ScoreDigitsAt(line, p) ==
    LET K == {k \in 0..MaxScoreDigits :
                /\ p + k <= Len(line)
                /\ AllIn(line, p, p + k - 1, DigitChars)
                /\ line[p + k] = SP}
    IN  IF K = {} THEN 0 - 1 ELSE Max(K)

\* does the regex match with its first character at position s ?
\* ('.' matches every character but a line feed; '$' is the end of the text)
RegexMatchesAt(line, s) ==
    /\ s + OffStatus + 2 <= Len(line)
    /\ AllIn(line, s, s + ModeLen - 1, DigitChars)
    /\ line[s + ModeLen] = SP
    /\ AllIn(line, s + OffMode2, s + OffMode2 + ModeLen - 1, DigitChars)
    /\ line[s + OffHash1 - 1] = SP
    /\ AllIn(line, s + OffHash1, s + OffHash1 + HashLen - 1, HexChars)
    /\ line[s + OffHash2 - 1] = SP
    /\ AllIn(line, s + OffHash2, s + OffHash2 + HashLen - 1, HexChars)
    /\ line[s + OffStatus - 1] = SP
    /\ line[s + OffStatus] \in StatusChars
    /\ ScoreDigitsAt(line, s + OffStatus + 1) >= 0
    /\ s + OffStatus + 1 + ScoreDigitsAt(line, s + OffStatus + 1) < Len(line)
    /\ "\n" \notin Range(Drop(line, s + OffStatus + 1 + ScoreDigitsAt(line, s + OffStatus + 1)))

\* Option<Match> of one capture group
NoGroup == [some |-> FALSE, str |-> <<>>]

Group(str) == [some |-> TRUE, str |-> str]

\* the capture groups of the match that starts at s, rest being the text
\* after the space that follows the status and its digits, and n the length
\* the lazy (.+?) takes
CapturesSplit(line, s, rest, n) ==
    [matched |-> TRUE,
     groups |-> <<
       Group(SubSeq(line, s, s + ModeLen - 1)),
       Group(SubSeq(line, s + OffMode2, s + OffMode2 + ModeLen - 1)),
       Group(SubSeq(line, s + OffHash1, s + OffHash1 + HashLen - 1)),
       Group(SubSeq(line, s + OffHash2, s + OffHash2 + HashLen - 1)),
       Group(<<line[s + OffStatus]>>),
       Group(SubSeq(rest, 1, n)),
       IF n < Len(rest) THEN Group(Drop(rest, n + 1)) ELSE NoGroup >>]

\* lazy (.+?): the shortest non-empty prefix of rest after which either a tab
\* and at least one character follow, or the text ends
CapturesRest(line, s, rest) ==
    CapturesSplit(line, s, rest,
                  Min({n \in 1..Len(rest) :
                         \/ n + 1 < Len(rest) /\ rest[n + 1] = TAB
                         \/ n = Len(rest)}))

CapturesAt(line, s) ==
    CapturesRest(line, s,
                 Drop(line, s + OffStatus + 1 + ScoreDigitsAt(line, s + OffStatus + 1)))

RegexStarts(line) == {s \in 1..Len(line) : RegexMatchesAt(line, s)}

\* Regex::captures: the leftmost match and its capture groups. The regex has
\* seven groups: the digits after the status are matched outside any group,
\* group 6 is the lazy (.+?) and group 7 the (.+) after the tab.
Captures(line) ==
    IF RegexStarts(line) = {} THEN [matched |-> FALSE, groups |-> <<>>]
    ELSE CapturesAt(line, Min(RegexStarts(line)))

\* Captures::get(i): None for a group that did not take part in the match and
\* for an index the regex has no group for
CapGet(caps, i) == IF i <= Len(caps.groups) THEN caps.groups[i] ELSE NoGroup

NoScore == [some |-> FALSE, val |-> 0]

SomeScore(v) == [some |-> TRUE, val |-> v]

\* a panic of parse_diff (expect / unwrap on None or Err)
ParsePanic ==
    [ok |-> FALSE, src_mode |-> <<>>, dst_mode |-> <<>>, src_hash |-> <<>>,
     dst_hash |-> <<>>, status |-> <<>>, score |-> NoScore,
     src_path |-> <<>>, dst_path |-> <<>>]

\* the StagedFile built from the captures g6 = get(6), g7 = get(7), g8 = get(8)
StagedFile(captures, g6, g7, g8) ==
    IF g6.some /\ ~ParseI32(g6.str).ok THEN ParsePanic   \* get(6): parse().unwrap()
    ELSE IF ~g7.some THEN ParsePanic                     \* get(7).unwrap()
    ELSE [ok |-> TRUE,
          src_mode |-> CapGet(captures, 1).str,
          dst_mode |-> CapGet(captures, 2).str,
          src_hash |-> CapGet(captures, 3).str,
          dst_hash |-> CapGet(captures, 4).str,
          status |-> CapGet(captures, 5).str,
          score |-> IF g6.some THEN SomeScore(ParseI32(g6.str).val) ELSE NoScore,
          src_path |-> g7.str,
          dst_path |-> IF g8.some THEN g8.str ELSE <<>>]

ParseCaptures(captures) ==
    IF ~captures.matched THEN ParsePanic                 \* expect("Failed to parse diff")
    ELSE StagedFile(captures, CapGet(captures, 6), CapGet(captures, 7), CapGet(captures, 8))

parse_diff(diff) == ParseCaptures(Captures(diff))

(***************************************************************************)
(* Texts used as inputs                                                    *)
(***************************************************************************)
T_a_js == <<"a", ".", "j", "s">>

T_b_js == <<"b", ".", "j", "s">>

T_c_js == <<"c", ".", "j", "s">>

T_l_js == <<"l", ".", "j", "s">>

T_b_c == <<"b", ".", "c">>

T_test_a_js == <<"t", "e", "s", "t", "/", "a", ".", "j", "s">>

T_abs_test_a_js == <<"/", "r", "/", "t", "e", "s", "t", "/", "a", ".", "j", "s">>

T_a_space_js == <<"a", " ", "b", ".", "j", "s">>

T_seven == <<"7">>

T_bad_path == <<"a", BadByte, ".", "j", "s">>

G_star_js == <<"*", ".", "j", "s">>

G_not_test_star_js == <<"!", "t", "e", "s", "t", "/", "*", ".", "j", "s">>

G_test_star_js == <<"t", "e", "s", "t", "/", "*", ".", "j", "s">>

G_not_abs_test == <<"!", "/", "r", "/", "t", "e", "s", "t", "/", "*">>

G_not_star == <<"!", "*">>

G_test_q_js == <<"t", "e", "s", "t", "/", "?", ".", "j", "s">>

G_rec_a_js == <<"*", "*", "/", "a", ".", "j", "s">>

G_class_js == <<"[", "a", "b", "]", ".", "j", "s">>

G_open_class == <<"[">>

G_three_stars == <<"*", "*", "*">>

G_bad_rec == <<"a", "*", "*">>

\* sequences over S of length at most n
SeqsUpTo(S, n) == UNION {[1..k -> S] : k \in 0..n}

(***************************************************************************)
(* matches_some_path on its own                                            *)
(***************************************************************************)
MaxPatterns == 3

MatchPatternTexts ==
    {G_star_js, G_not_test_star_js, G_not_star, G_test_q_js, G_rec_a_js, G_class_js}

MatchPaths == {T_test_a_js, T_a_js, T_abs_test_a_js, T_b_c, T_bad_path}

MatchIdle ==
    /\ m_patterns = <<>>
    /\ m_path = <<>>
    /\ m_done = TRUE
    /\ m_result = FALSE

ParseIdle ==
    /\ p_fields = ParsePanic
    /\ p_line = <<>>
    /\ p_done = TRUE
    /\ p_result = ParsePanic

RunIdle ==
    /\ pc = "idle"
    /\ files = <<>>
    /\ formatter = "none"
    /\ write = FALSE
    /\ update_working_tree = FALSE
    /\ signed_patterns = <<>>
    /\ queried = FALSE
    /\ staged_files = <<>>
    /\ line_no = 0
    /\ index = <<>>
    /\ worktree = <<>>
    /\ decisions = <<>>
    /\ exit_code = 0 - 1

MatchInit ==
    /\ m_patterns \in SeqsUpTo({SignedPattern_from_str(t) : t \in MatchPatternTexts},
                               MaxPatterns)
    /\ m_path \in MatchPaths
    /\ m_done = FALSE
    /\ m_result = FALSE
    /\ ParseIdle
    /\ RunIdle

MatchPath ==
    /\ ~m_done
    /\ m_result' = matches_some_path(m_patterns, m_path)
    /\ m_done' = TRUE
    /\ UNCHANGED <<m_patterns, m_path, pvars, dvars>>

MatchNext == MatchPath

SpecMatch == MatchInit /\ [][MatchNext]_vars

(***************************************************************************)
(* Staged-change record lines                                              *)
(***************************************************************************)
Repeat(c, n) == [k \in 1..n |-> c]

\* object ids: the all-zero id and three blobs
HashZero == Repeat("0", HashLen)

Hash1 == Repeat("a", HashLen)

Hash2 == Repeat("b", HashLen)

Hash3 == Repeat("c", HashLen)

ModeAbsent == Repeat("0", ModeLen)

ModeFile == <<"1", "0", "0", "6", "4", "4">>

ModeSymlink == <<"1", "2", "0", "0", "0", "0">>

DigitText(d) ==
    CASE d = 0 -> "0" [] d = 1 -> "1" [] d = 2 -> "2" [] d = 3 -> "3" [] d = 4 -> "4"
      [] d = 5 -> "5" [] d = 6 -> "6" [] d = 7 -> "7" [] d = 8 -> "8" [] d = 9 -> "9"

\* decimal text of a natural number
RECURSIVE DecText(_)
DecText(n) ==
    IF n < 10 THEN <<DigitText(n)>> ELSE Append(DecText(n \div 10), DigitText(n % 10))

\* the text of one record line:
\*   <src_mode> <dst_mode> <src_hash> <dst_hash> <status><score?> <src_path>[TAB<dst_path>]
RecordLine(f) ==
    f.src_mode \o <<SP>> \o f.dst_mode \o <<SP>> \o f.src_hash \o <<SP>> \o f.dst_hash
      \o <<SP>> \o f.status
      \o (IF f.score.some THEN DecText(f.score.val) ELSE <<>>)
      \o <<SP>> \o f.src_path
      \o (IF Len(f.dst_path) > 0 THEN <<TAB>> \o f.dst_path ELSE <<>>)

Fields(sm, dm, sh, dh, st, sc, sp, dp) ==
    [src_mode |-> sm, dst_mode |-> dm, src_hash |-> sh, dst_hash |-> dh,
     status |-> st, score |-> sc, src_path |-> sp, dst_path |-> dp]

(***************************************************************************)
(* parse_diff on its own                                                   *)
(***************************************************************************)
ParseScores == {NoScore, SomeScore(5), SomeScore(90), SomeScore(100)}

ParseFields ==
    {Fields(sm, dm, sh, dh, <<st>>, sc, sp, dp) :
        sm \in {ModeAbsent, ModeFile}, dm \in {ModeFile, ModeSymlink},
        sh \in {HashZero, Hash1}, dh \in {Hash1, Hash2},
        st \in StatusChars, sc \in ParseScores,
        sp \in {T_a_js, T_a_space_js, T_seven}, dp \in {<<>>, T_b_js}}

ParseInit ==
    /\ p_fields \in ParseFields
    /\ p_line = RecordLine(p_fields)
    /\ p_done = FALSE
    /\ p_result = ParsePanic
    /\ MatchIdle
    /\ RunIdle

ParseLine ==
    /\ ~p_done
    /\ p_result' = parse_diff(p_line)
    /\ p_done' = TRUE
    /\ UNCHANGED <<p_fields, p_line, mvars, dvars>>

ParseNext == ParseLine

SpecParse == ParseInit /\ [][ParseNext]_vars

(***************************************************************************)
(* The repository, the index, the working tree and the formatter           *)
(***************************************************************************)
\* get_git_root: the trimmed output of git rev-parse --show-toplevel
GitRoot == <<"/", "r">>

\* file contents, a line per element
C_raw == <<"raw", "keep", "keep">>

C_bad == <<"bad", "keep", "keep">>

C_fmt == <<"fmt", "keep", "keep">>

\* blob read: the content an object id names
Blob(hash) ==
    CASE hash = Hash1 -> C_raw
      [] hash = Hash2 -> C_bad
      [] hash = Hash3 -> C_fmt
      [] OTHER -> <<>>

FormatLine(cmd, l) ==
    CASE l = "raw" -> "fmt"
      [] l = "fmt" /\ cmd = "toggle" -> "raw"
      [] OTHER -> l

\* formatter process: exit status and standard output for the input bytes.
\* Both commands reject content with a "bad" line; "fmt" is idempotent,
\* "toggle" is not.
Formatter(cmd, content) ==
    IF "bad" \in Range(content)
    THEN [status |-> 1, out |-> <<>>]
    ELSE [status |-> 0, out |-> [k \in 1..Len(content) |-> FormatLine(cmd, content[k])]]

FormatterCommands == {"fmt", "toggle"}

\* working-tree patch apply: the patch old -> new replaces the lines in which
\* old and new differ; it applies only where the target still holds old's lines
PatchApply(old, new, target) ==
    LET hunks == {k \in 1..Len(old) : old[k] # new[k]}
    IN  IF Len(old) = Len(new) /\ Len(old) = Len(target)
        THEN [ok |-> \A k \in hunks : target[k] = old[k],
              content |-> [k \in 1..Len(target) |->
                              IF k \in hunks THEN new[k] ELSE target[k]]]
        ELSE [ok |-> target = old, content |-> new]

StagedPaths == {T_a_js, T_test_a_js, T_b_js, T_l_js, T_c_js}

\* staged content of every path before the run
Index0 ==
    [p \in StagedPaths |->
        CASE p = T_test_a_js -> C_bad
          [] p = T_b_js -> C_fmt
          [] OTHER -> C_raw]

\* an unstaged edit of the last line, and one of the first line
EditLast(content) == [content EXCEPT ![Len(content)] = "edit"]

EditFirst(content) == [content EXCEPT ![1] = "edit"]

\* working trees before the run: a.js as staged, or with an unstaged edit
WorkTrees ==
    {[Index0 EXCEPT ![T_a_js] = w] : w \in {C_raw, EditLast(C_raw), EditFirst(C_raw)}}

\* the record lines of the staged-changes query, one per staged path, and a
\* line that is no record
Line_a == RecordLine(Fields(ModeFile, ModeFile, Hash3, Hash1, <<"M">>, NoScore, T_seven, T_a_js))

Line_test_a == RecordLine(Fields(ModeFile, ModeFile, Hash1, Hash2, <<"M">>, NoScore, T_seven, T_test_a_js))

Line_b == RecordLine(Fields(ModeFile, ModeFile, Hash1, Hash3, <<"M">>, NoScore, T_seven, T_b_js))

Line_l == RecordLine(Fields(ModeAbsent, ModeSymlink, HashZero, Hash1, <<"A">>, NoScore, T_seven, T_l_js))

Line_c == RecordLine(Fields(ModeAbsent, ModeFile, HashZero, Hash1, <<"A">>, NoScore, T_c_js, <<>>))

Line_garbage == <<"f", "a", "t", "a", "l", ":", " ", "b", "a", "d">>

StagedLines == {Line_a, Line_test_a, Line_b, Line_l, Line_c, Line_garbage}

MaxListing == 2

IsInjective(q) == \A i, j \in 1..Len(q) : q[i] = q[j] => i = j

\* listings: every path at most once
Listings == {q \in SeqsUpTo(StagedLines, MaxListing) : IsInjective(q)}

\* cli.files
FileLists ==
    { <<>>,
      <<G_star_js>>,
      <<G_test_star_js>>,
      <<G_star_js, G_not_abs_test>>,
      <<G_not_abs_test, G_star_js>>,
      <<G_test_star_js, G_not_star, G_rec_a_js>>,
      <<G_open_class>>,
      <<G_star_js, G_three_stars>>,
      <<G_star_js, G_not_abs_test, G_bad_rec>> }

(***************************************************************************)
(* The run: main, format_staged_files, format_file_in_index                *)
(***************************************************************************)
NoWrite == [some |-> FALSE, content |-> <<>>]

WriteOf(content) == [some |-> TRUE, content |-> content]

\* an implementation that formats the staged blob and writes the result to the
\* index without looking at the write flag
format_file_in_index_IgnoresNoWrite(cmd, diff_entry, uwt, wr) ==
    [returned |-> TRUE,
     reformatted |-> Formatter(cmd, Blob(diff_entry.dst_hash)).status = 0
                     /\ Formatter(cmd, Blob(diff_entry.dst_hash)).out # Blob(diff_entry.dst_hash),
     index_write |-> IF Formatter(cmd, Blob(diff_entry.dst_hash)).status = 0
                     THEN WriteOf(Formatter(cmd, Blob(diff_entry.dst_hash)).out)
                     ELSE NoWrite,
     wt_write |-> NoWrite]

\* format_file_in_index: reads the entry's dst_hash and stops at todo!(), a
\* panic: it never returns, runs no formatter and writes nothing.
format_file_in_index(cmd, diff_entry, uwt, wr) ==
    [returned |-> FALSE, reformatted |-> FALSE,
     index_write |-> NoWrite, wt_write |-> NoWrite]

\* main's map over cli.files
CompilePatterns(fs) == [k \in 1..Len(fs) |-> SignedPattern_from_str(fs[k])]

\* only the first pattern is looked at
AllPatternsValid_FirstOnly(fs) == Len(fs) = 0 \/ SignedPattern_from_str(fs[1]).ok

\* no pattern takes the Err arm (error! and process::exit(1)) of main's map
AllPatternsValid(fs) == \A k \in 1..Len(fs) : CompilePatterns(fs)[k].ok

\* the mode before the change is looked at instead of the mode after it
IsSymlink_SrcMode(entry) == entry.src_mode = ModeSymlink

\* entry.dst_mode == "120000"
IsSymlink(entry) == entry.dst_mode = ModeSymlink

\* entry_path of format_staged_files
EntryPath(entry) == normalize_path(entry.src_path, [some |-> TRUE, root |-> GitRoot])

RunInit ==
    /\ pc = "main"
    /\ files \in FileLists
    /\ formatter \in FormatterCommands
    /\ write \in BOOLEAN
    /\ update_working_tree \in BOOLEAN
    /\ signed_patterns = <<>>
    /\ queried = FALSE
    /\ staged_files = <<>>
    /\ line_no = 0
    /\ index = Index0
    /\ worktree \in WorkTrees
    /\ decisions = <<>>
    /\ exit_code = 0 - 1
    /\ MatchIdle
    /\ ParseIdle

\* main up to the call of format_staged_files
Main ==
    /\ pc = "main"
    /\ IF AllPatternsValid(files)
       THEN /\ signed_patterns' = CompilePatterns(files)
            /\ pc' = "query"
            /\ UNCHANGED exit_code
       ELSE /\ pc' = "exited"
            /\ exit_code' = 1
            /\ UNCHANGED signed_patterns
    /\ UNCHANGED <<files, formatter, write, update_working_tree, queried, staged_files,
                   line_no, index, worktree, decisions, mvars, pvars>>

\* format_staged_files: git diff-index --cached --diff-filter=AM --no-renames HEAD
QueryStaged ==
    /\ pc = "query"
    /\ staged_files' \in Listings
    /\ queried' = TRUE
    /\ line_no' = 1
    /\ pc' = "loop"
    /\ UNCHANGED <<files, formatter, write, update_working_tree, signed_patterns,
                   index, worktree, decisions, exit_code, mvars, pvars>>

Decision(entry, passed, r) ==
    [entry |-> entry, passed |-> passed, returned |-> r.returned,
     reformatted |-> r.reformatted]

Panic ==
    /\ pc' = "panicked"
    /\ exit_code' = 101

\* the entry is not handed to format_file_in_index: continue
SkipEntry(entry) ==
    /\ decisions' = Append(decisions,
                           Decision(entry, FALSE, [returned |-> FALSE, reformatted |-> FALSE]))
    /\ line_no' = line_no + 1
    /\ UNCHANGED <<pc, exit_code, index, worktree>>

\* the call of format_file_in_index on the entry, r being what the call does
CallReconciler(entry, r) ==
    /\ decisions' = Append(decisions, Decision(entry, TRUE, r))
    /\ index' = IF r.index_write.some /\ entry.src_path \in DOMAIN index
                THEN [index EXCEPT ![entry.src_path] = r.index_write.content]
                ELSE index
    /\ worktree' = IF r.wt_write.some /\ entry.src_path \in DOMAIN worktree
                   THEN [worktree EXCEPT ![entry.src_path] = r.wt_write.content]
                   ELSE worktree
    /\ IF r.returned
       THEN line_no' = line_no + 1 /\ UNCHANGED <<pc, exit_code>>
       ELSE Panic /\ UNCHANGED line_no

\* the body of the loop for the entry parse_diff returned (or its panic)
ProcessEntry(entry) ==
    IF ~entry.ok
    THEN Panic /\ UNCHANGED <<line_no, index, worktree, decisions>>
    ELSE IF IsSymlink(entry) THEN SkipEntry(entry)
    ELSE IF ~matches_some_path(signed_patterns, EntryPath(entry)) THEN SkipEntry(entry)
    ELSE CallReconciler(entry,
                        format_file_in_index(formatter, entry, update_working_tree, write))

\* one iteration of the loop over the lines of the listing
ProcessLine ==
    /\ pc = "loop"
    /\ line_no <= Len(staged_files)
    /\ ProcessEntry(parse_diff(staged_files[line_no]))
    /\ UNCHANGED <<files, formatter, write, update_working_tree, signed_patterns,
                   queried, staged_files, mvars, pvars>>

\* the loop ends, format_staged_files and main return
Finish ==
    /\ pc = "loop"
    /\ line_no > Len(staged_files)
    /\ pc' = "exited"
    /\ exit_code' = 0
    /\ UNCHANGED <<files, formatter, write, update_working_tree, signed_patterns,
                   queried, staged_files, line_no, index, worktree, decisions, mvars, pvars>>

Next == Main \/ QueryStaged \/ ProcessLine \/ Finish

Spec == RunInit /\ [][Next]_vars

(***************************************************************************)
(* Properties                                                              *)
(***************************************************************************)
\* the sign of the last pattern whose glob matches the path; FALSE when none does
LastMatchSign(patterns, path) ==
    LET S == {k \in 1..Len(patterns) : GlobMatches(patterns[k].pattern, path)}
    IN  IF S = {} THEN FALSE ELSE patterns[Max(S)].positive

Ended == pc \in {"exited", "panicked"}

PassedDecisions == {k \in 1..Len(decisions) : decisions[k].passed}

\* what the formatter does with the staged blob of an entry
FormatterOn(entry) == Formatter(formatter, Blob(entry.dst_hash))

\* C1: for a path that is text, matches_some_path returns the sign of the last
\* pattern of the list whose glob matches the path, and false when no pattern
\* matches (so also for the empty list).
C1_LastMatchWins ==
    (m_done /\ PathIsUtf8(m_path)) => m_result = LastMatchSign(m_patterns, m_path)

\* C1 witness: "!test/*.js" then "*.js" on test/a.js: both match, the later
\* include pattern wins over the earlier exclude pattern.
C1_Witness ==
    /\ m_done
    /\ m_path = T_test_a_js
    /\ m_patterns = <<SignedPattern_from_str(G_not_test_star_js),
                      SignedPattern_from_str(G_star_js)>>
    /\ m_result = TRUE

\* C2: a record whose dst_mode is 120000 is never handed to
\* format_file_in_index, whatever the patterns are.
C2_SymlinkNeverReconciled ==
    \A k \in PassedDecisions : decisions[k].entry.dst_mode # ModeSymlink

\* C2 witness: a symlink record was skipped although the patterns include its path.
C2_Witness ==
    \E k \in 1..Len(decisions) :
        /\ decisions[k].entry.dst_mode = ModeSymlink
        /\ ~decisions[k].passed
        /\ LastMatchSign(signed_patterns, PathJoin(GitRoot, decisions[k].entry.src_path))

C4_FailureDoesNotStopRun ==
    (/\ Ended
     /\ \A k \in 1..Len(staged_files) : parse_diff(staged_files[k]).ok
     /\ \E k \in PassedDecisions : FormatterOn(decisions[k].entry).status # 0)
    => (Len(decisions) = Len(staged_files) /\ exit_code # 0)

\* C5: every record line of the grammar parses, and the record holds the
\* line's fields exactly: modes, hashes, status and src_path as written, the
\* score written after the status (absent when none is written), and the
\* text after the tab as dst_path (empty without a tab).
C5_ParseRoundTrips ==
    p_done =>
        /\ p_result.ok
        /\ p_result.src_mode = p_fields.src_mode
        /\ p_result.dst_mode = p_fields.dst_mode
        /\ p_result.src_hash = p_fields.src_hash
        /\ p_result.dst_hash = p_fields.dst_hash
        /\ p_result.status = p_fields.status
        /\ p_result.score = p_fields.score
        /\ p_result.src_path = p_fields.src_path
        /\ p_result.dst_path = p_fields.dst_path

\* C6: when a line of the listing is no record, the run ends with a non-zero
\* exit code and no record of the listing has been handed to the reconciler.
C6_ParseErrorBeforeFormatting ==
    (Ended /\ \E k \in 1..Len(staged_files) : ~Captures(staged_files[k]).matched)
    => (exit_code # 0 /\ PassedDecisions = {})

\* C7: when one of the patterns of cli.files is an invalid glob, the staged
\* changes are never queried, no record is handed to the reconciler, and the
\* run ends with exit code 1.
C7_InvalidPatternStopsRun ==
    (\E k \in 1..Len(files) : ~SignedPattern_from_str(files[k]).ok)
    => /\ ~queried
       /\ decisions = <<>>
       /\ pc \in {"main", "exited"}
       /\ pc = "exited" => exit_code = 1

\* C7 witness: the run has exited with 1 on a list whose last pattern is invalid.
C7_Witness ==
    /\ pc = "exited"
    /\ exit_code = 1
    /\ files = <<G_star_js, G_not_abs_test, G_bad_rec>>
    /\ ~queried

\* C8: with writes and the working-tree update enabled, when the reconciler is
\* called on a path whose working-tree file differs from the staged content A
\* only outside the lines the formatter changes, the index of the path becomes
\* the formatter's output B and the working-tree file becomes the file with
\* the change from A to B applied.
C8_ReconcilePreservesUnstaged ==
    [][(/\ Len(decisions') = Len(decisions) + 1
        /\ decisions'[Len(decisions')].passed
        /\ write /\ update_working_tree
        /\ decisions'[Len(decisions')].entry.src_path \in DOMAIN index
        /\ index[decisions'[Len(decisions')].entry.src_path]
             = Blob(decisions'[Len(decisions')].entry.dst_hash)
        /\ FormatterOn(decisions'[Len(decisions')].entry).status = 0
        /\ PatchApply(Blob(decisions'[Len(decisions')].entry.dst_hash),
                      FormatterOn(decisions'[Len(decisions')].entry).out,
                      worktree[decisions'[Len(decisions')].entry.src_path]).ok)
       => (/\ index'[decisions'[Len(decisions')].entry.src_path]
                = FormatterOn(decisions'[Len(decisions')].entry).out
           /\ worktree'[decisions'[Len(decisions')].entry.src_path]
                = PatchApply(Blob(decisions'[Len(decisions')].entry.dst_hash),
                             FormatterOn(decisions'[Len(decisions')].entry).out,
                             worktree[decisions'[Len(decisions')].entry.src_path]).content)]_vars

\* C9: when the formatter's output is identical to the staged content, the
\* reconciler returns, reports the file as not reformatted, and leaves the
\* index as it was.
C9_IdenticalOutputIsUnchanged ==
    \A k \in PassedDecisions :
        (/\ FormatterOn(decisions[k].entry).status = 0
         /\ FormatterOn(decisions[k].entry).out = Blob(decisions[k].entry.dst_hash))
        => (/\ decisions[k].returned
            /\ ~decisions[k].reformatted
            /\ index = Index0)

====
